---- MODULE Spec2Model ----
(***************************************************************************)
(* A model of bip39_filter.py: the length and position query parsers, the *)
(* part-of-speech check with its lazily prepared WordNet data, the filter *)
(* pass, and the one-shot and interactive drivers.                        *)
(*                                                                         *)
(* A Python str is a sequence of one-character strings.  An Optional[int] *)
(* is << >> (None) or <<n>>.  The result of a call is a record            *)
(* [exc |-> the exception raised or "none", val |-> the value returned].  *)
(***************************************************************************)
EXTENDS Integers, Sequences, FiniteSets, TLC

VARIABLES
    pc,             \* position of the driver
    mode,           \* "start", "oneshot" or "interactive" (main, line 224)
    non_interactive,\* args.non_interactive
    nltk,           \* global nltk is not None (import at lines 10-15 succeeded)
    wn,             \* global wn: "None" or "wordnet"
    dataPresent,    \* environment: the WordNet corpus is on disk
    lexicon,        \* environment: the <<word, tag>> pairs that have a synset
    fetches,        \* history: how often lines 31-32 ran in this process
    wnWrites,       \* history: how often line 36 ran in this process
    words,          \* the word list
    lengthText,     \* raw length query
    positionsText,  \* raw positions query
    posText,        \* raw word-type query
    query,          \* the parsed query handed to filter_words
    outcome,        \* result of the last parser / filter call
    uncaught,       \* exception that left main, or "none"
    exitCode,       \* << >> while running, <<n>> once the process has ended
    nQueries        \* interactive queries read so far

vars == <<pc, mode, non_interactive, nltk, wn, dataPresent, lexicon, fetches, wnWrites, words,
          lengthText, positionsText, posText, query, outcome, uncaught,
          exitCode, nQueries>>

envVars == <<nltk, wn, dataPresent, lexicon, fetches, wnWrites>>

driverVars == <<mode, non_interactive, uncaught, exitCode, nQueries>>

textVars == <<lengthText, positionsText, posText>>

-----------------------------------------------------------------------------
(* Bounds of the model *)

\* longest raw length query enumerated exhaustively
MaxLenText == 5

\* longest raw positions query enumerated exhaustively
MaxPosText == 4

\* most comma-separated segments in a composed positions query
MaxSegments == 3

\* longest word list handed to filter_words on its own
MaxWords == 2

\* most queries read in one interactive session
MaxQueries == 2

-----------------------------------------------------------------------------
(* Python values *)

None == << >>

Some(n) == <<n>>

Returned(v) == [exc |-> "none", val |-> v]

Raised(e) == [exc |-> e, val |-> << >>]

NoOutcome == [exc |-> "pending", val |-> << >>]

-----------------------------------------------------------------------------
(* Characters and the str methods the program uses *)

LowerLetters ==
    <<"a","b","c","d","e","f","g","h","i","j","k","l","m",
      "n","o","p","q","r","s","t","u","v","w","x","y","z">>

UpperLetters ==
    <<"A","B","C","D","E","F","G","H","I","J","K","L","M",
      "N","O","P","Q","R","S","T","U","V","W","X","Y","Z">>

DigitChars == <<"0","1","2","3","4","5","6","7","8","9">>

IsDigit(c) == \E i \in 1..10 : DigitChars[i] = c

IsAlpha(c) == \E i \in 1..26 : LowerLetters[i] = c \/ UpperLetters[i] = c

IsSpace(c) == c \in {" ", "\t", "\n"}

DigitVal(c) == (CHOOSE i \in 1..10 : DigitChars[i] = c) - 1

LowerChar(c) ==
    IF \E i \in 1..26 : UpperLetters[i] = c
    THEN LowerLetters[CHOOSE i \in 1..26 : UpperLetters[i] = c]
    ELSE c

\* str.lower()
Lower(s) == [i \in 1..Len(s) |-> LowerChar(s[i])]

RECURSIVE LStrip(_)
LStrip(s) ==
    IF s # << >> /\ IsSpace(Head(s)) THEN LStrip(Tail(s)) ELSE s

RECURSIVE RStrip(_)
RStrip(s) ==
    IF s # << >> /\ IsSpace(s[Len(s)]) THEN RStrip(SubSeq(s, 1, Len(s) - 1)) ELSE s

\* str.strip()
Strip(s) == RStrip(LStrip(s))

\* int(s) for a string of digits
RECURSIVE ToInt(_)
ToInt(s) ==
    IF s = << >> THEN 0
    ELSE 10 * ToInt(SubSeq(s, 1, Len(s) - 1)) + DigitVal(s[Len(s)])

\* the number of leading characters of s that \d takes
RECURSIVE DigitRun(_)
DigitRun(s) ==
    IF s # << >> /\ IsDigit(Head(s)) THEN 1 + DigitRun(Tail(s)) ELSE 0

\* re.fullmatch(r"\d+", s)
MatchDigits(s) == Len(s) >= 1 /\ DigitRun(s) = Len(s)

\* re.fullmatch(r"(\d*)-(\d*)", s): << >> when there is no match, else <<lo, hi>>
MatchRange(s) ==
    LET k == DigitRun(s) IN
    IF k < Len(s) /\ s[k + 1] = "-"
       /\ DigitRun(SubSeq(s, k + 2, Len(s))) = Len(s) - (k + 1)
    THEN <<SubSeq(s, 1, k), SubSeq(s, k + 2, Len(s))>>
    ELSE << >>

-----------------------------------------------------------------------------
(* parse_length_query *)

\* a parser that lets a lone "-" through
RangeIsEmptyNever(lo, hi) == FALSE

\* line 74: both sides of the "-" are empty
RangeIsEmpty(lo, hi) == lo = None /\ hi = None

\* line 68: the tuple returned for "N"
ExactResult(n) == <<None, None, Some(n)>>

parse_length_query(raw) ==
    LET text == Strip(raw) IN
    IF text = << >> THEN Returned(<<None, None, None>>)
    ELSE IF MatchDigits(text) THEN Returned(ExactResult(ToInt(text)))
    ELSE LET m == MatchRange(text) IN
         IF m # << >>
         THEN LET min_len == IF m[1] # << >> THEN Some(ToInt(m[1])) ELSE None
                  max_len == IF m[2] # << >> THEN Some(ToInt(m[2])) ELSE None
              IN  IF RangeIsEmpty(min_len, max_len)
                  THEN Raised("ValueError")
                  ELSE Returned(<<min_len, max_len, None>>)
         ELSE Raised("ValueError")

-----------------------------------------------------------------------------
(* Length parser on its own: every short string over LenAlphabet *)

LenAlphabet == {"0", "1", "7", "-", " ", "a"}

LenTexts == UNION {[1..n -> LenAlphabet] : n \in 0..MaxLenText}

\* nothing imported, nothing on disk
NoEnvironment ==
    /\ nltk = FALSE /\ wn = "None" /\ dataPresent = FALSE /\ lexicon = {}
    /\ fetches = 0 /\ wnWrites = 0

\* no driver running: a function is called on its own
NoDriver ==
    /\ mode = "start" /\ non_interactive = FALSE
    /\ uncaught = "none" /\ exitCode = None /\ nQueries = 0
    /\ outcome = NoOutcome

InitLength ==
    /\ pc = "length"
    /\ lengthText \in LenTexts
    /\ NoEnvironment /\ NoDriver
    /\ words = << >> /\ positionsText = << >> /\ posText = << >>
    /\ query = << >>

ParseLength ==
    /\ pc = "length"
    /\ outcome' = parse_length_query(lengthText)
    /\ pc' = "done"
    /\ UNCHANGED <<envVars, driverVars, textVars, words, query>>

NextLength == ParseLength

SpecLength == InitLength /\ [][NextLength]_vars

-----------------------------------------------------------------------------
(* What the length grammar says, stated without the parser *)

NonSpace(s) == {i \in 1..Len(s) : ~IsSpace(s[i])}

Max(S) == CHOOSE x \in S : \A y \in S : y <= x

Min(S) == CHOOSE x \in S : \A y \in S : x <= y

\* s without its leading and trailing whitespace
Trimmed(s) ==
    IF NonSpace(s) = {} THEN << >>
    ELSE SubSeq(s, Min(NonSpace(s)), Max(NonSpace(s)))

AllDigits(s) == \A i \in 1..Len(s) : IsDigit(s[i])

RECURSIVE Pow10(_)
Pow10(k) == IF k = 0 THEN 1 ELSE 10 * Pow10(k - 1)

RECURSIVE DecimalValue(_)
DecimalValue(s) ==
    IF s = << >> THEN 0
    ELSE DigitVal(Head(s)) * Pow10(Len(s) - 1) + DecimalValue(Tail(s))

OptValue(s) == IF s = << >> THEN None ELSE Some(DecimalValue(s))

\* the positions of t at which t reads D*-D*
Dashes(t) ==
    {i \in 1..Len(t) : /\ t[i] = "-"
                        /\ AllDigits(SubSeq(t, 1, i - 1))
                        /\ AllDigits(SubSeq(t, i + 1, Len(t)))}

LengthGrammar(raw, out) ==
    LET t == Trimmed(raw) IN
    IF t = << >> THEN out = Returned(<<None, None, None>>)
    ELSE IF AllDigits(t) THEN out = Returned(<<None, None, Some(DecimalValue(t))>>)
    ELSE IF Dashes(t) # {} /\ Len(t) >= 2
         THEN LET i == CHOOSE i \in Dashes(t) : TRUE IN
              out = Returned(<<OptValue(SubSeq(t, 1, i - 1)),
                               OptValue(SubSeq(t, i + 1, Len(t))), None>>)
    ELSE out.exc = "ValueError"

\* C4: parse_length_query follows the length grammar on the stripped input:
\* "" gives (None, None, None), digits N give exact N alone, D*-D* with a
\* non-empty side gives min and max from the two sides, a lone "-" and every
\* other string raise ValueError; exact is never set together with min or max.
C4_LengthGrammar ==
    pc = "done" =>
        /\ LengthGrammar(lengthText, outcome)
        /\ outcome.exc \in {"none", "ValueError"}
        /\ outcome.exc = "none" =>
              (outcome.val[3] # None =>
                  outcome.val[1] = None /\ outcome.val[2] = None)

C4_Witness ==
    /\ pc = "done" /\ outcome.exc = "none"
    /\ outcome.val[1] = Some(1) /\ outcome.val[2] = Some(7)
    /\ Len(lengthText) = 5

\* C5: every constraint parse_length_query returns is well-formed: an exact
\* length is at least 1 and a range with both bounds has min <= max.
C5_WellFormed ==
    (pc = "done" /\ outcome.exc = "none") =>
        /\ outcome.val[3] # None => outcome.val[3][1] >= 1
        /\ (outcome.val[1] # None /\ outcome.val[2] # None)
              => outcome.val[1][1] <= outcome.val[2][1]

-----------------------------------------------------------------------------
(* parse_positions_query *)

\* text.split(sep): the segments between the separators, empty ones included
RECURSIVE Split(_, _)
Split(s, sep) ==
    IF \E i \in 1..Len(s) : s[i] = sep
    THEN LET i == CHOOSE i \in 1..Len(s) :
                      s[i] = sep /\ \A j \in 1..(i - 1) : s[j] # sep
         IN  <<SubSeq(s, 1, i - 1)>> \o Split(SubSeq(s, i + 1, Len(s)), sep)
    ELSE <<s>>

\* re.fullmatch(r"(\d+)=([a-zA-Z])", p): << >> or <<digits, letter>>
MatchPosition(p) ==
    LET k == DigitRun(p) IN
    IF k >= 1 /\ Len(p) = k + 2 /\ p[k + 1] = "=" /\ IsAlpha(p[k + 2])
    THEN <<SubSeq(p, 1, k), p[k + 2]>>
    ELSE << >>

\* a dict that keeps the first letter given for an index
DictKeepFirst(mapping, idx, ch) ==
    [i \in DOMAIN mapping \cup {idx} |->
        IF i \in DOMAIN mapping THEN mapping[i] ELSE ch]

\* line 97: mapping[idx] = ch
DictSet(mapping, idx, ch) ==
    [i \in DOMAIN mapping \cup {idx} |-> IF i = idx THEN ch ELSE mapping[i]]

\* lines 88-97: the loop over the parts, from part k on
RECURSIVE PositionsLoop(_, _, _)
PositionsLoop(parts, k, mapping) ==
    IF k > Len(parts) THEN Returned(mapping)
    ELSE LET p == Strip(parts[k]) IN
         IF p = << >> THEN PositionsLoop(parts, k + 1, mapping)
         ELSE LET m == MatchPosition(p) IN
              IF m = << >> THEN Raised("ValueError")
              ELSE PositionsLoop(parts, k + 1,
                                 DictSet(mapping, ToInt(m[1]), LowerChar(m[2])))

parse_positions_query(raw) ==
    LET text == Strip(raw) IN
    IF text = << >> THEN Returned(<< >>)
    ELSE PositionsLoop(Split(text, ","), 1, << >>)

-----------------------------------------------------------------------------
(* Position parser on its own: every short string over PosAlphabet, and    *)
(* queries composed of up to MaxSegments sample segments                   *)

PosAlphabet == {"0", "1", "=", "a", "B", ",", " "}

SegmentSamples ==
    { <<"1","=","a">>, <<"1","=","B">>, <<"0","1","=","c">>, <<"2","=","b">>,
      <<" ","0","=","a"," ">>, <<"1","2","=","Z">>, << >>, <<" ">>,
      <<"x","=","y">>, <<"1","=","a","b">>, <<"1"," ","=","a">> }

RECURSIVE Join(_)
Join(segs) ==
    IF Len(segs) = 0 THEN << >>
    ELSE IF Len(segs) = 1 THEN segs[1]
    ELSE segs[1] \o <<",">> \o Join(Tail(segs))

PosTexts ==
    (UNION {[1..n -> PosAlphabet] : n \in 0..MaxPosText})
    \cup {Join(segs) : segs \in UNION {[1..n -> SegmentSamples] : n \in 1..MaxSegments}}

InitPositions ==
    /\ pc = "positions"
    /\ positionsText \in PosTexts
    /\ NoEnvironment /\ NoDriver
    /\ words = << >> /\ lengthText = << >> /\ posText = << >>
    /\ query = << >>

ParsePositions ==
    /\ pc = "positions"
    /\ outcome' = parse_positions_query(positionsText)
    /\ pc' = "done"
    /\ UNCHANGED <<envVars, driverVars, textVars, words, query>>

NextPositions == ParsePositions

SpecPositions == InitPositions /\ [][NextPositions]_vars

-----------------------------------------------------------------------------
(* What the positions grammar says, stated without the parser *)

\* where a segment of t can start or end: before t, at a comma, after t
Cuts(t) == {0, Len(t) + 1} \cup {i \in 1..Len(t) : t[i] = ","}

\* the trimmed segment of t that starts after the cut a
SegmentAfter(t, a) ==
    Trimmed(SubSeq(t, a + 1, Min({c \in Cuts(t) : c > a}) - 1))

\* the cuts of t after which a non-empty segment starts
Segments(t) == {a \in Cuts(t) \ {Len(t) + 1} : SegmentAfter(t, a) # << >>}

\* p reads digits=singleLetter
HasShape(p) ==
    /\ Len(p) >= 3
    /\ AllDigits(SubSeq(p, 1, Len(p) - 2)) /\ p[Len(p) - 1] = "=" /\ IsAlpha(p[Len(p)])

IndexOf(p) == DecimalValue(SubSeq(p, 1, Len(p) - 2))

PositionsGrammar(raw, out) ==
    LET t    == Trimmed(raw)
        segs == Segments(t)
    IN  IF \E a \in segs : ~HasShape(SegmentAfter(t, a))
        THEN out = Raised("ValueError")
        ELSE /\ out.exc = "none"
             /\ DOMAIN out.val = {IndexOf(SegmentAfter(t, a)) : a \in segs}
             /\ \A idx \in DOMAIN out.val :
                    LET last == Max({a \in segs : IndexOf(SegmentAfter(t, a)) = idx})
                        p    == SegmentAfter(t, last)
                    IN  out.val[idx] = LowerChar(p[Len(p)])

\* C6: parse_positions_query follows the positions grammar: "" gives the
\* empty map, segments are trimmed and empty ones skipped, each
\* digits=singleLetter segment maps its index to the lower-cased letter with
\* the last segment for an index winning, and any other non-empty segment,
\* wherever it stands, raises ValueError with no partial map.
C6_PositionsGrammar ==
    pc = "done" => PositionsGrammar(positionsText, outcome)

\* three segments for index 1, the last one an upper-case B
C6_Witness ==
    /\ pc = "done"
    /\ outcome = Returned([i \in {1} |-> "b"])
    /\ Cardinality(Segments(Trimmed(positionsText))) = 3

-----------------------------------------------------------------------------
(* ensure_wordnet and word_matches_pos *)

\* the part of the state ensure_wordnet reads and writes
CurrentEnv ==
    [nltk |-> nltk, wn |-> wn, dataPresent |-> dataPresent,
     fetches |-> fetches, wnWrites |-> wnWrites]

\* a handle that is lost when the data had to be fetched
WnRefStale(fetched) == IF fetched THEN "None" ELSE "wordnet"

\* lines 29 and 35: wn_ref, the corpus reader nltk.corpus.wordnet
WnRef(fetched) == "wordnet"

\* line 36: globals()["wn"] = wn_ref
StoreHandle(E, fetched) ==
    [E EXCEPT !.wn = WnRef(fetched), !.wnWrites = @ + 1]

\* lines 21-36.  supplied: whether nltk.download, if it is called, leaves
\* the corpus on disk.  Returns the exception raised and the new state.
ensure_wordnet(E, supplied) ==
    IF ~E.nltk THEN [exc |-> "RuntimeError", env |-> E]
    ELSE IF E.dataPresent THEN [exc |-> "none", env |-> StoreHandle(E, FALSE)]
    ELSE LET F == [E EXCEPT !.fetches = @ + 1, !.dataPresent = supplied] IN
         IF supplied
         THEN [exc |-> "none", env |-> StoreHandle(F, TRUE)]
         ELSE [exc |-> "LookupError", env |-> F]

noun == <<"n","o","u","n">>

verb == <<"v","e","r","b">>

adjective == <<"a","d","j","e","c","t","i","v","e">>

adj == <<"a","d","j">>

\* an adjective filter that forgets the satellite adjectives
AdjectiveTagsNarrow == {"a"}

\* line 125: adjective + satellite adjective
AdjectiveTags == {"a", "s"}

\* lines 119-127: the WordNet tags of one token, {} for an unknown token
TagsOf(t) ==
    LET tnorm == Lower(Strip(t)) IN
    IF tnorm \in {noun, <<"n">>} THEN {"n"}
    ELSE IF tnorm \in {verb, <<"v">>} THEN {"v"}
    ELSE IF tnorm \in {adjective, adj, <<"a">>} THEN AdjectiveTags
    ELSE {}

\* line 129: wn.synsets(word, pos=pos) is non-empty
Synsets(word, pos) == <<word, pos>> \in lexicon

\* lines 113-131
word_matches_pos(word, pos_types, E, supplied) ==
    IF pos_types = {} THEN [exc |-> "none", val |-> TRUE, env |-> E]
    ELSE LET r == ensure_wordnet(E, supplied) IN
         IF r.exc # "none" THEN [exc |-> r.exc, val |-> FALSE, env |-> r.env]
         ELSE IF \E t \in pos_types : TagsOf(t) = {}
              THEN [exc |-> "ValueError", val |-> FALSE, env |-> r.env]
              ELSE LET desired == UNION {TagsOf(t) : t \in pos_types} IN
                   [exc |-> "none",
                    val |-> \E pos \in desired : Synsets(word, pos),
                    env |-> r.env]

-----------------------------------------------------------------------------
(* word_matches_fixed_positions and filter_words *)

\* a check that forgets idx1 <= 0, so that word[idx1 - 1] reads word[-1]
PositionHoldsNoZeroCheck(word, idx1, ch) ==
    /\ idx1 <= Len(word)
    /\ Len(word) > 0
    /\ word[IF idx1 = 0 THEN Len(word) ELSE idx1] = ch

\* lines 106-109: one (index, letter) pair
PositionHolds(word, idx1, ch) ==
    /\ ~(idx1 <= 0 \/ idx1 > Len(word))
    /\ word[idx1] = ch

\* lines 101-110: False at the first pair that fails, True when none does
word_matches_fixed_positions(word, fixed_positions) ==
    \A idx1 \in DOMAIN fixed_positions :
        PositionHolds(word, idx1, fixed_positions[idx1])

\* lines 148-153
LengthPasses(n, q) ==
    /\ ~(q.exact_len # None /\ n # q.exact_len[1])
    /\ ~(q.min_len # None /\ n < q.min_len[1])
    /\ ~(q.max_len # None /\ n > q.max_len[1])

\* lines 143-158: the loop from word k on
RECURSIVE FilterLoop(_, _, _, _, _, _)
FilterLoop(ws, k, q, results, E, supplied) ==
    IF k > Len(ws) THEN [exc |-> "none", val |-> results, env |-> E]
    ELSE LET w == Lower(Strip(ws[k])) IN
         IF w = << >> THEN FilterLoop(ws, k + 1, q, results, E, supplied)
         ELSE IF ~LengthPasses(Len(w), q)
              THEN FilterLoop(ws, k + 1, q, results, E, supplied)
         ELSE IF ~word_matches_fixed_positions(w, q.fixed_positions)
              THEN FilterLoop(ws, k + 1, q, results, E, supplied)
         ELSE IF q.pos_types = {}
              THEN FilterLoop(ws, k + 1, q, Append(results, w), E, supplied)
         ELSE LET r == word_matches_pos(w, q.pos_types, E, supplied) IN
              IF r.exc # "none"
              THEN [exc |-> r.exc, val |-> << >>, env |-> r.env]
              ELSE FilterLoop(ws, k + 1, q,
                              IF r.val THEN Append(results, w) ELSE results,
                              r.env, supplied)

\* lines 134-159
filter_words(ws, q, E, supplied) == FilterLoop(ws, 1, q, << >>, E, supplied)

\* the state after a call that left the environment as E
EnvBecomes(E) ==
    /\ nltk' = E.nltk /\ wn' = E.wn /\ dataPresent' = E.dataPresent
    /\ fetches' = E.fetches /\ wnWrites' = E.wnWrites
    /\ lexicon' = lexicon

-----------------------------------------------------------------------------
(* filter_words on its own: short word lists, sample queries, every state  *)
(* of the WordNet installation                                             *)

WordSamples == { <<"a","b">>, <<" ","A","b">>, <<"b","a","b">>, <<" ">> }

WordLists == UNION {[1..n -> WordSamples] : n \in 0..MaxWords}

\* <<min_len, max_len, exact_len>>: what parse_length_query can return for
\* lengths 2 and 3, and two triples with exact next to a bound
LengthSamples ==
    { <<None, None, None>>, <<None, None, Some(2)>>, <<None, None, Some(3)>>,
      <<Some(2), None, None>>, <<Some(3), None, None>>,
      <<None, Some(2), None>>, <<None, Some(1), None>>,
      <<Some(2), Some(3), None>>, <<Some(3), Some(2), None>>,
      <<Some(2), Some(2), None>>,
      <<Some(2), Some(3), Some(3)>>, <<Some(3), None, Some(2)>> }

MakeQuery(len, fixed, pos) ==
    [min_len |-> len[1], max_len |-> len[2], exact_len |-> len[3],
     fixed_positions |-> fixed, pos_types |-> pos]

FixedSamples ==
    { << >>, [i \in {1} |-> "a"], [i \in {1} |-> "b"], [i \in {0} |-> "b"],
      [i \in {1, 3} |-> "b"] }

PosTypeSamples ==
    { {}, {noun}, {<<" ","V","E","R","B"," ">>}, {adj},
      {<<"N","o","u","n">>, <<"v">>}, {<<"n">>, <<"b","o","g","u","s">>} }

Lexicons ==
    { { <<<<"a","b">>, "n">>, <<<<"b","a","b">>, "s">> },
      { <<<<"a","b">>, "a">>, <<<<"b","a","b">>, "v">> } }

\* the import at lines 10-15 sets nltk and wn together
Imported ==
    /\ nltk \in BOOLEAN
    /\ wn = IF nltk THEN "wordnet" ELSE "None"
    /\ dataPresent \in BOOLEAN
    /\ lexicon \in Lexicons
    /\ fetches = 0 /\ wnWrites = 0

InitFilter ==
    /\ pc = "filter"
    /\ words \in WordLists
    /\ query \in {MakeQuery(len, fixed, pos) :
                      len \in LengthSamples, fixed \in FixedSamples,
                      pos \in PosTypeSamples}
    /\ Imported /\ NoDriver
    /\ lengthText = << >> /\ positionsText = << >> /\ posText = << >>

CallFilter ==
    /\ pc = "filter"
    /\ \E supplied \in BOOLEAN :
          LET r == filter_words(words, query, CurrentEnv, supplied) IN
          /\ outcome' = [exc |-> r.exc, val |-> r.val]
          /\ EnvBecomes(r.env)
    /\ pc' = "done"
    /\ UNCHANGED <<driverVars, textVars, words, query>>

NextFilter == CallFilter

SpecFilter == InitFilter /\ [][NextFilter]_vars

-----------------------------------------------------------------------------
(* What filter_words is to return, stated without the loop *)

Normalized(w) == Lower(Trimmed(w))

\* the category a token names, "unknown" when it names none
Category(t) ==
    LET n == Normalized(t) IN
    IF n \in {noun, <<"n">>} THEN "noun"
    ELSE IF n \in {verb, <<"v">>} THEN "verb"
    ELSE IF n \in {adjective, adj, <<"a">>} THEN "adjective"
    ELSE "unknown"

HasSense(w, category) ==
    \/ category = "noun" /\ <<w, "n">> \in lexicon
    \/ category = "verb" /\ <<w, "v">> \in lexicon
    \/ category = "adjective" /\ (<<w, "a">> \in lexicon \/ <<w, "s">> \in lexicon)

\* w, already normalized, passes every active check of q
Passes(w, q) ==
    /\ w # << >>
    /\ q.exact_len # None => Len(w) = q.exact_len[1]
    /\ q.min_len # None => Len(w) >= q.min_len[1]
    /\ q.max_len # None => Len(w) <= q.max_len[1]
    /\ \A idx \in DOMAIN q.fixed_positions :
          idx \in 1..Len(w) /\ w[idx] = q.fixed_positions[idx]
    /\ q.pos_types # {} => \E t \in q.pos_types : HasSense(w, Category(t))

\* the indices of ws whose word passes, and the k-th of them
PassingIndices(ws, q) == {i \in 1..Len(ws) : Passes(Normalized(ws[i]), q)}

NthPassing(ws, q, k) ==
    CHOOSE i \in PassingIndices(ws, q) :
        Cardinality({j \in PassingIndices(ws, q) : j < i}) = k - 1

Expected(ws, q) ==
    [k \in 1..Cardinality(PassingIndices(ws, q)) |->
        Normalized(ws[NthPassing(ws, q, k)])]

\* filter_words has been called on words and query, and outcome is its result
FilterCalled == query # << >> /\ outcome.exc # "pending"

\* C7: when filter_words raises nothing it returns exactly the normalized,
\* non-blank input words that pass every active check (exact, min and max
\* length, every fixed position, some requested category with adjective
\* widened to satellite adjective), in input order and multiplicity.
C7_FilterResult ==
    (FilterCalled /\ outcome.exc = "none") => outcome.val = Expected(words, query)

\* a range and a category at once: of two words the one whose only sense
\* is a satellite adjective is returned
C7_Witness ==
    /\ pc = "done" /\ outcome.exc = "none"
    /\ query.pos_types = {adj} /\ query.min_len = Some(2) /\ query.max_len = Some(3)
    /\ Len(outcome.val) = 1 /\ Len(words) = 2
    /\ outcome.val[1] = <<"b","a","b">>

\* the lexical capability cannot be had in this call: nltk is not
\* importable, or the corpus is missing and was not supplied
Unavailable == ~nltk \/ ~dataPresent

\* C1: a call of filter_words with a non-empty set of categories while the
\* lexical capability is unavailable raises RuntimeError and returns no
\* list, for every word sequence and every length and position constraint.
C1_CapabilityError ==
    (FilterCalled /\ query.pos_types # {} /\ Unavailable)
        => outcome.exc = "RuntimeError"

\* C2: a call of filter_words whose category set holds an unknown token
\* raises ValueError, whatever the words, the other constraints and the
\* state of the lexical capability are.
C2_UnknownToken ==
    (FilterCalled /\ \E t \in query.pos_types : Category(t) = "unknown")
        => outcome.exc = "ValueError"

-----------------------------------------------------------------------------
(* main and interactive_prompt *)

\* lines 177 and 233: {t.strip() for t in text.split(",") if t.strip()}
PosTypes(text) ==
    LET parts == Split(text, ",") IN
    {Strip(parts[i]) : i \in 1..Len(parts)} \ {<< >>}

\* lines 175-177 and 231-233: the body of the first try block
ParseQuery(length_text, positions_text, pos_text) ==
    LET l == parse_length_query(length_text) IN
    IF l.exc # "none" THEN Raised(l.exc)
    ELSE LET p == parse_positions_query(positions_text) IN
         IF p.exc # "none" THEN Raised(p.exc)
         ELSE Returned(MakeQuery(l.val, p.val, PosTypes(pos_text)))

\* a handler that catches every exception
CaughtAnything(exc) == TRUE

\* lines 191 and 247: except RuntimeError
CaughtByFilterHandler(exc) == exc = "RuntimeError"

\* lines 178 and 234: except ValueError
CaughtByParseHandler(exc) == exc = "ValueError"

LengthTextSamples ==
    { << >>, <<"2">>, <<"2","-","3">>, <<"3","-">>, <<"-">>, <<"3","-","2">> }

PositionsTextSamples ==
    { << >>, <<"1","=","a">>, <<"0","=","b">>, <<"1","=","B",","," ","3","=","b">>,
      <<"x","=","y">>, <<"9","=","a">> }

PosTextSamples ==
    { << >>, noun, <<" ","A","D","J"," ",",","v">>, <<"b","o","g","u","s">> }

\* what load_bip39_words returns: stripped, non-blank lines
LoadedWordLists ==
    { << <<"a","b">>, <<"b","a","b">> >>,
      << <<"b">>, <<"a","b">>, <<"a","b">> >> }

Init ==
    /\ pc = "main" /\ mode = "start"
    /\ non_interactive \in BOOLEAN
    /\ lengthText \in LengthTextSamples
    /\ positionsText \in PositionsTextSamples
    /\ posText \in PosTextSamples
    /\ words \in LoadedWordLists
    /\ Imported
    /\ query = << >> /\ outcome = NoOutcome
    /\ uncaught = "none" /\ exitCode = None /\ nQueries = 0

\* line 224: interactive when no filter is given and not forced otherwise
Main ==
    /\ pc = "main"
    /\ IF ~non_interactive
          /\ lengthText = << >> /\ positionsText = << >> /\ posText = << >>
       THEN mode' = "interactive" /\ pc' = "prompt"
       ELSE mode' = "oneshot" /\ pc' = "parse"
    /\ UNCHANGED <<envVars, textVars, words, query, outcome, non_interactive,
                   uncaught, exitCode, nQueries>>

\* lines 230-236
OneShotParse ==
    /\ pc = "parse" /\ mode = "oneshot"
    /\ LET r == ParseQuery(lengthText, positionsText, posText) IN
       IF r.exc = "none"
       THEN /\ query' = r.val /\ pc' = "filter"
            /\ UNCHANGED <<outcome, uncaught, exitCode>>
       ELSE /\ outcome' = r /\ pc' = "exit"
            /\ IF CaughtByParseHandler(r.exc)
               THEN exitCode' = Some(2) /\ UNCHANGED uncaught
               ELSE exitCode' = Some(1) /\ uncaught' = r.exc
            /\ UNCHANGED query
    /\ UNCHANGED <<envVars, textVars, words, mode, non_interactive, nQueries>>

\* lines 238-252; an exception no handler catches ends the process with
\* a traceback and status 1
OneShotFilter ==
    /\ pc = "filter" /\ mode = "oneshot"
    /\ \E supplied \in BOOLEAN :
          LET r == filter_words(words, query, CurrentEnv, supplied) IN
          /\ outcome' = [exc |-> r.exc, val |-> r.val]
          /\ EnvBecomes(r.env)
          /\ IF r.exc = "none" THEN exitCode' = Some(0) /\ UNCHANGED uncaught
             ELSE IF CaughtByFilterHandler(r.exc)
                  THEN exitCode' = Some(3) /\ UNCHANGED uncaught
                  ELSE exitCode' = Some(1) /\ uncaught' = r.exc
    /\ pc' = "exit"
    /\ UNCHANGED <<textVars, words, query, mode, non_interactive, nQueries>>

\* lines 166-169: the three input lines, stripped.  The locals of the
\* previous iteration (min_len, ..., hits) are dead from here on.
ReadQuery ==
    /\ pc = "prompt" /\ mode = "interactive"
    /\ nQueries < MaxQueries
    /\ \E l \in LengthTextSamples, p \in PositionsTextSamples, s \in PosTextSamples :
          /\ lengthText' = Strip(l)
          /\ positionsText' = Strip(p)
          /\ posText' = Strip(s)
    /\ nQueries' = nQueries + 1
    /\ query' = << >> /\ outcome' = NoOutcome
    /\ pc' = "parse"
    /\ UNCHANGED <<envVars, words, mode, non_interactive, uncaught, exitCode>>

\* lines 170-172 and 201-205: end of input, or "n" to "Filter again?";
\* interactive_prompt returns and main returns 0 (line 226)
EndSession ==
    /\ pc \in {"prompt", "again"} /\ mode = "interactive"
    /\ exitCode' = Some(0)
    /\ pc' = "exit"
    /\ UNCHANGED <<envVars, textVars, words, query, outcome, mode,
                   non_interactive, uncaught, nQueries>>

\* lines 174-180
InteractiveParse ==
    /\ pc = "parse" /\ mode = "interactive"
    /\ LET r == ParseQuery(lengthText, positionsText, posText) IN
       IF r.exc = "none"
       THEN /\ query' = r.val /\ pc' = "filter"
            /\ UNCHANGED <<outcome, uncaught, exitCode>>
       ELSE /\ outcome' = r
            /\ IF CaughtByParseHandler(r.exc)
               THEN pc' = "prompt" /\ UNCHANGED <<uncaught, exitCode>>
               ELSE pc' = "exit" /\ exitCode' = Some(1) /\ uncaught' = r.exc
            /\ UNCHANGED query
    /\ UNCHANGED <<envVars, textVars, words, mode, non_interactive, nQueries>>

\* lines 182-197
InteractiveFilter ==
    /\ pc = "filter" /\ mode = "interactive"
    /\ \E supplied \in BOOLEAN :
          LET r == filter_words(words, query, CurrentEnv, supplied) IN
          /\ outcome' = [exc |-> r.exc, val |-> r.val]
          /\ EnvBecomes(r.env)
          /\ IF r.exc = "none"
             THEN pc' = "again" /\ UNCHANGED <<uncaught, exitCode>>
             ELSE IF CaughtByFilterHandler(r.exc)
                  THEN pc' = "prompt" /\ UNCHANGED <<uncaught, exitCode>>
                  ELSE pc' = "exit" /\ exitCode' = Some(1) /\ uncaught' = r.exc
    /\ UNCHANGED <<textVars, words, query, mode, non_interactive, nQueries>>

\* lines 199-205: any answer that does not start with "n"
FilterAgain ==
    /\ pc = "again" /\ mode = "interactive"
    /\ pc' = "prompt"
    /\ UNCHANGED <<envVars, textVars, words, query, outcome, driverVars>>

Next ==
    \/ Main
    \/ OneShotParse
    \/ OneShotFilter
    \/ ReadQuery
    \/ EndSession
    \/ InteractiveParse
    \/ InteractiveFilter
    \/ FilterAgain

Spec == Init /\ [][Next]_vars

-----------------------------------------------------------------------------
(* Claims about a whole process *)

\* the raw query has a syntax error in its length, positions or type part
LengthSyntaxError(text) == LengthGrammar(text, Raised("ValueError"))

PositionsSyntaxError(text) == PositionsGrammar(text, Raised("ValueError"))

PosSyntaxError(text) ==
    LET t == Trimmed(text) IN
    \E a \in Segments(t) : Category(SegmentAfter(t, a)) = "unknown"

QuerySyntaxError ==
    \/ LengthSyntaxError(lengthText)
    \/ PositionsSyntaxError(positionsText)
    \/ PosSyntaxError(posText)

\* C3: the outcomes are told apart at the boundary and no query error is
\* fatal: one-shot main returns 0 on success, 2 for every syntax error in
\* the length, positions or type part and 3 for every capability or runtime
\* error; an interactive session survives all of them.
C3_Outcomes ==
    /\ uncaught = "none"
    /\ (pc = "exit" /\ mode = "oneshot") =>
          /\ outcome.exc = "ValueError" => exitCode = Some(2)
          /\ outcome.exc \in {"RuntimeError", "LookupError"} => exitCode = Some(3)
          /\ outcome.exc = "none" => exitCode = Some(0)
          /\ QuerySyntaxError => exitCode # Some(0)

\* the indices the positions part of the raw query constrains
ConstrainedIndices ==
    LET t == Trimmed(positionsText) IN
    {IndexOf(SegmentAfter(t, a)) : a \in Segments(t)}

\* the filter pass of the current query is over
FilterReturned == pc \in {"exit", "again"} /\ outcome.exc = "none"

\* C8: index bounds are checked when matching, not when parsing: a
\* well-formed query parses whatever its indices are, no word is returned
\* for which a constrained index is 0 or beyond its length, and a query
\* that constrains index 0 ends with an empty result and no error.
C8_BoundsAtMatchTime ==
    /\ (outcome.exc = "ValueError" /\ uncaught = "none")
          => (LengthSyntaxError(lengthText) \/ PositionsSyntaxError(positionsText))
    /\ FilterReturned =>
          \A k \in 1..Len(outcome.val) : \A idx \in ConstrainedIndices :
              idx \in 1..Len(outcome.val[k])
    /\ (pc \in {"exit", "again"}
          /\ ~LengthSyntaxError(lengthText) /\ ~PositionsSyntaxError(positionsText)
          /\ 0 \in ConstrainedIndices)
        => /\ outcome = Returned(<< >>)
           /\ mode = "oneshot" => exitCode = Some(0)

\* "0=b" with a type filter and no WordNet: still an empty result, exit 0
C8_Witness ==
    /\ pc = "exit" /\ mode = "oneshot" /\ exitCode = Some(0)
    /\ 0 \in ConstrainedIndices /\ posText # << >> /\ ~nltk
    /\ outcome = Returned(<< >>)

\* C9: in one process the WordNet data is fetched at most once.
C9_FetchAtMostOnce == fetches <= 1

\* the data was fetched, and ensure_wordnet was called again by a later
\* query of the same session
C9_Witness ==
    /\ fetches = 1 /\ nQueries >= 2 /\ pc = "again"
    /\ wnWrites > Len(words)

\* C10 as stated: the handle is written once.
C10_WrittenOnce == wnWrites <= 1

\* C10 as amended: every successful ensure_wordnet call stores the handle
\* again, but always the same one: once wn holds the handle it holds it for
\* the rest of the process, and the word list is the only other state the
\* queries of a session share, and it is never written.
C10_HandleStable == [][(wn = "wordnet" => wn' = "wordnet") /\ words' = words]_vars

C10_Witness == wnWrites >= 2 /\ wn = "wordnet" /\ nQueries >= 2 /\ fetches = 1

====
